---- MODULE Spec2Model ----
(***************************************************************************)
(* The lumispy-demos notebooks as a state machine: a Jupyter kernel that   *)
(* executes the code cells of one notebook from top to bottom while the    *)
(* user may drag the regions of interest of the interactive plots.  The    *)
(* state is the kernel namespace (names bound to objects), the heap of     *)
(* signal objects the library calls create and mutate, the fit model, the  *)
(* cell outputs and the pending GUI callbacks.  One action per kind of     *)
(* code cell; the cell tables give each cell's kind and operands.          *)
(***************************************************************************)
EXTENDS Integers, Sequences, FiniteSets, TLC

(* ------------------------------ bounds -------------------------------- *)

\* scan widths and heights tried besides the 64 x 64 demo map:
\* 2*CropPx+1 .. 2*CropPx+ExtraScan
ExtraScan == 2
\* fresh widget ids the front end can draw for the progress bars
MaxUuid == 3
\* positions a region of interest can be dragged to
MaxRoiPos == 2
\* peaks the peak finder returns on the tried spectra: 0 .. MaxPeaks, and ng
MaxPeaks == 2
\* centres one fit moves away from their starting values
MaxMoved == 1
\* times the user executes one cell again out of order
MaxReruns == 1
\* positions of the fitted height maps tried, and their largest height
MaxPixels == 2
MaxHeight == 2

(* ------------------------- program constants -------------------------- *)

\* crop_edges(crop_px=5)
CropPx == 5
\* the demo HYPCard map: (64, 64|1024)
DemoScan == 64
DemoChannels == 1024
\* ng=10 Gaussians appended by the advanced fitting cell
ng == 10
\* find_peaks1D_ohaver(..., maxpeakn=10)
maxpeakn == 10
\* centre.bmin = position - 3, centre.bmax = position + 3
PeakWindow == 3
\* cl1.axes_manager.indices = (7,7)
ChosenIndex == 7
\* g1.centre.value = 2.4, bmax = value + 0.2, bmin = value - 0.2, in 0.1 eV
G1Centre == 24
G1Window == 2
\* cl2.isig[:-3]
LastPixels == 3
\* axis = {'offset': 300, 'scale': 4, 'units': 'nm', 'size': 101, ...}
AxisOffset == 300
AxisScale == 4
AxisSize == 101
\* Grating__Groove_Density values with a correction factor
Grating150 == 150
Grating600 == 600

Max(a, b) == IF a > b THEN a ELSE b
Min(a, b) == IF a < b THEN a ELSE b

(* ------------------------------ notebooks ----------------------------- *)

Notebooks == {"HYP", "SUR", "GATAN", "GLASGOW", "GRENOBLE", "ROUEN"}

\* the code cells of each notebook, in file order, by kind.  "view" is a
\* cell that displays, plots or computes something no modelled cell reads.
HypCells ==
  << "import", "hyp_load", "view", "hyp_bkgcheck", "hyp_bkgsub", "hyp_shift",
     "crop", "hyp_spikes", "plot", "view", "view", "hyp_seload",
     "hyp_senav", "view" >>

SurCells ==
  << "import", "load", "view", "view", "view", "sur_bkgpath", "sur_bkgsub",
     "sur_grating", "sur_shift", "crop", "tool", "plot", "view" >>

GatanCells ==
  << "import", "load", "view", "set_type", "view", "view", "to_eV", "view",
     "load", "view", "tool", "isig", "tool", "view", "view", "set_item",
     "view", "view" >>

GlasgowCells ==
  << "import", "view", "view", "view", "view", "view", "view", "view", "view",
     "view", "view", "view", "view", "view", "view", "view", "view",
     "load", "view", "roi", "view", "load", "to_eV", "view", "view",
     "view", "view", "view", "view" >>

GrenobleCells ==
  << "import", "gre_load", "view", "view", "view", "view", "view", "view",
     "view", "view", "view", "view", "view", "view", "roi", "view",
     "to_eV", "view", "view", "gre_jacobian_s", "gre_jacobian_y", "view", "create_model",
     "view", "gre_components", "view", "gre_start", "gre_bounds", "gre_fit",
     "view", "multifit", "gre_as_signal", "gre_mask", "gre_masked", "tool", "isig",
     "tool", "rebin", "tool", "view", "view", "view", "view", "view",
     "markers", "gre_model3", "view", "gre_advanced" >>

RouenCells ==
  << "import", "view", "load", "view", "view", "view", "tool", "isig",
     "view", "tool", "rebin", "rou_copy", "view", "view", "view", "view",
     "view", "view", "markers", "view", "to_eV", "view", "view", "view",
     "create_model", "view", "rou_component", "view", "multifit", "view",
     "view" >>

Cells(n) ==
  CASE n = "HYP" -> HypCells
    [] n = "SUR" -> SurCells
    [] n = "GATAN" -> GatanCells
    [] n = "GLASGOW" -> GlasgowCells
    [] n = "GRENOBLE" -> GrenobleCells
    [] n = "ROUEN" -> RouenCells

MaxCells == Len(GrenobleCells)

\* the operands of a cell: x the name it reads, y the name it binds,
\* inplace the flag it passes, tag what the call does to the data,
\* gui whether the call opens a tool the user may or may not apply
Operands(x, y, inplace, tag, gui) ==
  [x |-> x, y |-> y, inplace |-> inplace, tag |-> tag, gui |-> gui]

\* to_eV() without the argument replaces the axis in the existing object
to_eV_default == TRUE

Arg(n, c) ==
  CASE n = "HYP" /\ c = 7 -> Operands("cl_sem_bkg", "cl_sem_bkg", FALSE, "crop", FALSE)
    [] n = "HYP" /\ c = 9 -> Operands("cl_sem_bkg_spikes", "", FALSE, "plot", FALSE)
    [] n = "SUR" /\ c = 12 -> Operands("cl", "", FALSE, "plot", FALSE)
    [] n = "SUR" /\ c = 2 -> Operands("", "cl", FALSE, "load", FALSE)
    [] n = "SUR" /\ c = 10 -> Operands("cl", "cl", FALSE, "crop", FALSE)
    [] n = "SUR" /\ c = 11 -> Operands("cl", "cl", TRUE, "spikes", FALSE)
    [] n = "GATAN" /\ c = 2 -> Operands("", "cl_spec", FALSE, "load", FALSE)
    [] n = "GATAN" /\ c = 4 -> Operands("cl_spec", "cl_spec", TRUE, "CLSEMSpectrum", FALSE)
    [] n = "GATAN" /\ c = 7 -> Operands("cl_spec", "cl_spec_eV", FALSE, "to_eV", FALSE)
    [] n = "GATAN" /\ c = 9 -> Operands("", "cl_linescan", FALSE, "load", FALSE)
    [] n = "GATAN" /\ c = 11 -> Operands("cl_linescan", "cl_linescan", TRUE, "bkg", TRUE)
    [] n = "GATAN" /\ c = 12 -> Operands("cl_linescan", "cl_linescan", FALSE, "isig", FALSE)
    [] n = "GATAN" /\ c = 13 -> Operands("cl_linescan", "cl_linescan", TRUE, "spikes", TRUE)
    [] n = "GATAN" /\ c = 16 -> Operands("cl_spec", "cl_spec", TRUE, "demo spectrum", FALSE)
    [] n = "GLASGOW" /\ c = 18 -> Operands("", "streak01", FALSE, "load", FALSE)
    [] n = "GLASGOW" /\ c = 20 -> Operands("streak01", "", FALSE, "roi", FALSE)
    [] n = "GLASGOW" /\ c = 22 -> Operands("", "streak02", FALSE, "load", FALSE)
    [] n = "GLASGOW" /\ c = 23 -> Operands("streak02", "streak02", TRUE, "to_eV", FALSE)
    [] n = "GRENOBLE" /\ c = 15 -> Operands("cl1", "", FALSE, "roi", FALSE)
    [] n = "GRENOBLE" /\ c = 17 -> Operands("cl1", "cl1_eV", FALSE, "to_eV", FALSE)
    [] n = "GRENOBLE" /\ c = 23 -> Operands("cl1_eV", "m", FALSE, "create_model", FALSE)
    [] n = "GRENOBLE" /\ c = 31 -> Operands("m", "m", TRUE, "bounded", FALSE)
    [] n = "GRENOBLE" /\ c = 35 -> Operands("cl2", "cl2", TRUE, "bkg", TRUE)
    [] n = "GRENOBLE" /\ c = 36 -> Operands("cl2", "cl2", FALSE, "isig", FALSE)
    [] n = "GRENOBLE" /\ c = 37 -> Operands("cl2", "cl2", TRUE, "spikes", FALSE)
    [] n = "GRENOBLE" /\ c = 38 -> Operands("cl2", "cl2", FALSE, "rebin", FALSE)
    [] n = "GRENOBLE" /\ c = 39 -> Operands("cl2", "cl2", TRUE, "smooth", FALSE)
    [] n = "GRENOBLE" /\ c = 45 -> Operands("cl2", "cl2", TRUE, "markers", FALSE)
    [] n = "ROUEN" /\ c = 3 -> Operands("", "cl2", FALSE, "load", FALSE)
    [] n = "ROUEN" /\ c = 7 -> Operands("cl2", "cl2", TRUE, "bkg", TRUE)
    [] n = "ROUEN" /\ c = 8 -> Operands("cl2", "cl2", FALSE, "isig", FALSE)
    [] n = "ROUEN" /\ c = 10 -> Operands("cl2", "cl2", TRUE, "spikes", TRUE)
    [] n = "ROUEN" /\ c = 11 -> Operands("cl2", "cl2", FALSE, "rebin", FALSE)
    [] n = "ROUEN" /\ c = 19 -> Operands("cl2", "cl2", TRUE, "markers", FALSE)
    [] n = "ROUEN" /\ c = 21 -> Operands("cl2a", "cl2_eV", FALSE, "to_eV", FALSE)
    [] n = "ROUEN" /\ c = 25 -> Operands("cl2_eV", "m", FALSE, "create_model", FALSE)
    [] n = "ROUEN" /\ c = 29 -> Operands("m", "m", TRUE, "", FALSE)
    [] OTHER -> Operands("", "", FALSE, "", FALSE)

\* every name a modelled cell binds to a signal
Names ==
  {"cl_sem", "cl_sem_bkg", "cl_sem_bkg_spikes", "SE", "cl", "cl_spec",
   "cl_spec_eV", "cl_linescan", "streak01", "streak02", "cl1", "cl2", "cl3",
   "cl1_eV", "s", "s2", "y2", "S2", "cl2a", "cl2_eV",
   "sliced_signal1", "sliced_signal2", "integrated_sliced_signal1",
   "integrated_sliced_signal2", "im", "im_roi1", "im_roi1_mean"}

Rois == {"roi1", "roi2"}

(* ------------------------------- inputs ------------------------------- *)

ScanSizes == ((2 * CropPx + 1) .. (2 * CropPx + ExtraScan)) \cup {DemoScan}
PeakCounts == (0 .. Min(MaxPeaks, maxpeakn)) \cup {maxpeakn}

\* what the data files of a notebook hold.  w, h: scan size; n: channels;
\* hasBkg: a stored background; hasRes: SEM resolution metadata; grating:
\* groove density; npeaks, gap: the peaks of the cl3 spectrum at (10,8);
\* heights: the Gaussian heights the multifit finds, position by position
NoFile ==
  [w |-> DemoScan, h |-> DemoScan, n |-> DemoChannels, hasBkg |-> TRUE,
   hasRes |-> TRUE, grating |-> Grating150, npeaks |-> 0, gap |-> 0,
   heights |-> <<>>]

HypFiles ==
  {[NoFile EXCEPT !.w = w, !.h = h, !.hasBkg = b, !.hasRes = r] :
     w \in ScanSizes, h \in ScanSizes, b \in BOOLEAN, r \in BOOLEAN}

\* hasBkg: a background .txt file lies in the folder
SurFiles ==
  {[NoFile EXCEPT !.w = w, !.h = h, !.hasBkg = b, !.grating = g] :
     w \in ScanSizes, h \in ScanSizes, b \in BOOLEAN,
     g \in {Grating150, Grating600, 1200}}

GatanFiles == {[NoFile EXCEPT !.w = w, !.n = n] : w \in ScanSizes, n \in {8, DemoChannels}}

GlasgowFiles == {[NoFile EXCEPT !.n = n] : n \in {8, DemoChannels}}

\* the fitted height maps tried: the mask arithmetic depends on the values
\* of the map, not on its shape, so a map is kept as the sequence of the
\* heights of MaxPixels positions
HeightMaps == [1 .. MaxPixels -> 0 .. MaxHeight]
RampMap == [i \in 1 .. MaxPixels |-> i - 1]

GrenobleFiles ==
  {[NoFile EXCEPT !.w = w, !.h = w, !.npeaks = k, !.gap = g, !.heights = RampMap] :
     w \in ScanSizes \ {2 * CropPx + 1}, k \in PeakCounts, g \in {4, 20}}

\* the demo maps with no peak and with one peak found at (10,8)
GrenobleRerunFiles ==
  {[NoFile EXCEPT !.npeaks = k, !.gap = 20, !.heights = RampMap] : k \in {0, 1}}

\* the 01_demo map with every fitted height map
GrenobleMapFiles ==
  {[NoFile EXCEPT !.heights = hm, !.gap = 20] : hm \in HeightMaps}

RouenFiles == {[NoFile EXCEPT !.w = w, !.n = n] : w \in ScanSizes, n \in {8, DemoChannels}}

Files(n) ==
  CASE n = "HYP" -> HypFiles
    [] n = "SUR" -> SurFiles
    [] n = "GATAN" -> GatanFiles
    [] n = "GLASGOW" -> GlasgowFiles
    [] n = "GRENOBLE" -> GrenobleFiles
    [] n = "ROUEN" -> RouenFiles

\* the positions of the peaks the peak finder returns, in nm
PeakPosition(f, i) == 600 + (i - 1) * f.gap

(* ------------------------------- state -------------------------------- *)

VARIABLES
  nb,        \* the notebook the kernel executes
  file,      \* the contents of the data files it loads
  pc,        \* index of the next code cell
  halted,    \* an uncaught exception ended the run
  took,      \* the continuation the last executed cell took
  execCount, \* the kernel's execution counter
  ns,        \* namespace: name -> object id (0: unbound)
  heap,      \* object id -> signal object
  scalars,   \* the plain python values the cells bind
  model,     \* the fit model bound to m
  out,       \* cell index -> output of that cell
  figs,      \* the plots made with a navigator, in order
  uuids,     \* widget ids drawn so far
  roi,       \* region of interest -> its position (0: not created)
  handlers,  \* region of interest -> callbacks connected to events.changed
  pending    \* callbacks of the event being handled that have not run yet

vars ==
  <<nb, file, pc, halted, took, execCount, ns, heap, scalars, model, out,
    figs, uuids, roi, handlers, pending>>

(* --------------------------- signal objects --------------------------- *)

NoMeta == [cropped |-> 0, resx |-> 0, bkg |-> FALSE]

\* a signal: class, title, navigation shape, signal shape, signal-axis
\* units, the processing its data went through, metadata, navigation
\* indices, permanent markers, for the output of an interactive function
\* the position of the region of interest it was computed for, and for
\* each signal axis the index in the loaded data of its first channel;
\* offset and scale (nm) of the wavelength axis of a signal a cell builds
\* from an array (0: the calibration comes with the file)
Signal(cls, title, nav, sig, axis, proc, meta) ==
  [cls |-> cls, title |-> title, nav |-> nav, sig |-> sig, axis |-> axis,
   proc |-> proc, meta |-> meta, ind |-> [i \in 1 .. Len(nav) |-> 0],
   markers |-> 0, at |-> 0, origin |-> [i \in 1 .. Len(sig) |-> 0],
   offset |-> 0, scale |-> 0]

NavSize(s) ==
  IF Len(s.nav) = 0 THEN 1
  ELSE IF Len(s.nav) = 1 THEN s.nav[1] ELSE s.nav[1] * s.nav[2]

\* python slice a[lo:hi] on an axis of length len: negative indices count
\* from the end, out-of-range indices are clamped
SliceIndex(len, i) == IF i < 0 THEN Max(len + i, 0) ELSE Min(i, len)
SliceLen(len, lo, hi) == Max(SliceIndex(len, hi) - SliceIndex(len, lo), 0)

(* ----------------------------- outputs -------------------------------- *)

Text(kind, s, dims) == [kind |-> kind, s |-> s, dims |-> dims]
NoText == Text("none", "", <<>>)
Output(text, count, wid) == [text |-> text, count |-> count, wid |-> wid]
NoOut == Output(NoText, 0, 0)

\* repr(signal): <Class, title: ..., dimensions: (nav|sig)>
Repr(s) == Text("repr", s.cls, <<s.title, s.nav, s.sig>>)
\* the progress bar of a map over all navigation positions
Progress_signal_size(s) == Text("progress", "IntProgress", <<0, s.sig[1]>>)
Progress(s) == Text("progress", "IntProgress", <<0, NavSize(s)>>)
BoolText(b) == Text("bool", IF b THEN "True" ELSE "False", <<>>)
ErrorText(e) == Text("error", e, <<>>)

\* the continuation a cell took: the branch and the loop iterations
Took(branch, iters) == [branch |-> branch, iters |-> iters]
Straight == Took("next", 0)
NotStarted == [kind |-> "", branch |-> "start", iters |-> 0]

(* -------------------------- library calls ----------------------------- *)

\* lum.load(path) of a HYPCard.bin
load_hypcard(f) ==
  Signal("CLSEMSpectrum", "load_from_AttoLightSEM", <<f.w, f.h>>, <<f.n>>, "nm",
         <<>>,
         [cropped |-> 0, resx |-> IF f.hasRes THEN f.w ELSE 0, bkg |-> f.hasBkg])

\* lum.hyperspyload of the SE_Scan*.png: an image of the scan's size
load_se(f) ==
  Signal("Signal2D", "SE_Scan", <<>>, <<f.w, f.h>>, "px", <<>>, NoMeta)

\* hs.load of the file a cell binds to name y
load(n, y, f) ==
  CASE y = "cl" -> Signal("CLSEMSpectrum", "HYPCard", <<f.w, f.h>>, <<f.n>>, "nm", <<>>, NoMeta)
    [] y = "cl_spec" -> Signal("CLSpectrum", "Test-spectrum_ZnO-NWs", <<>>, <<f.n>>, "nm", <<>>, NoMeta)
    [] y = "cl_linescan" -> Signal("CLSpectrum", "Test-linescan_InGaAs-NWs", <<f.w>>, <<f.n>>, "nm", <<>>, NoMeta)
    [] y = "streak01" -> Signal("LumiTransientSpectrum", "AlN_HR_streak_image", <<>>, <<f.n, f.n>>, "nm", <<>>, NoMeta)
    [] y = "streak02" -> Signal("LumiTransientSpectrum", "GaAsSb_streak_image", <<>>, <<f.n, f.n>>, "nm", <<>>, NoMeta)
    [] y = "cl1" -> Signal("CLSpectrum", "01_demo", <<f.w, f.h>>, <<f.n>>, "nm", <<>>, NoMeta)
    [] y = "cl2" -> Signal("CLSpectrum", "asymmetric-peak_map", <<f.w, f.h>>, <<f.n>>, "nm", <<>>, NoMeta)
    [] y = "cl3" -> Signal("CLSpectrum", "quantum-emitters_map", <<f.w, f.h>>, <<f.n>>, "nm", <<>>, NoMeta)

\* the result of a call: the id of the object it returns and the new heap
Result(id, h) == [id |-> id, heap |-> h]
\* a call that returns a new object holding s
New(h, s) == Result(Len(h) + 1, Append(h, s))

\* s.deepcopy(): a new object with the contents of s
deepcopy_alias(h, id) == Result(id, h)
deepcopy(h, id) == New(h, h[id])

\* s.background_subtraction(inplace)
background_subtraction_inplace(h, id, inplace) ==
  Result(id, [h EXCEPT ![id].proc = Append(@, "bkg")])
background_subtraction(h, id, inplace) ==
  IF inplace THEN Result(id, [h EXCEPT ![id].proc = Append(@, "bkg")])
  ELSE New(h, [h[id] EXCEPT !.proc = Append(@, "bkg")])

\* s.correct_grating_shift(...): shifts every spectrum of s itself
correct_grating_shift_on_copy(h, id) == h
correct_grating_shift(h, id) ==
  [h EXCEPT ![id].proc = Append(@, "shift")]

\* s.crop_edges(crop_px): a cropped copy, crop_px pixels off each edge
crop_edges_total(s, px) ==
  [s EXCEPT !.nav = <<s.nav[1] - px, s.nav[2] - px>>,
            !.proc = Append(@, "crop"), !.meta.cropped = px]
crop_edges(s, px) ==
  [s EXCEPT !.nav = <<s.nav[1] - 2 * px, s.nav[2] - 2 * px>>,
            !.proc = Append(@, "crop"), !.meta.cropped = px]

\* s.cosmic_rays_subtraction(): a copy with the spikes removed
cosmic_rays_subtraction(s) == [s EXCEPT !.proc = Append(@, "spikes")]

\* image.isig[x0:x1, y0:y1]
isig2(s, x0, x1, y0, y1) ==
  [s EXCEPT !.sig = <<SliceLen(s.sig[1], x0, x1), SliceLen(s.sig[2], y0, y1)>>,
            !.origin = <<s.origin[1] + SliceIndex(s.sig[1], x0),
                         s.origin[2] + SliceIndex(s.sig[2], y0)>>]

\* s.isig[:hi] on a spectrum: the channels from the first up to hi
isig1_from_end(s, hi) ==
  [s EXCEPT !.sig = <<SliceLen(s.sig[1], 0 - hi, s.sig[1])>>,
            !.origin = <<s.origin[1] + SliceIndex(s.sig[1], 0 - hi)>>,
            !.proc = Append(@, "isig")]
isig1(s, hi) ==
  [s EXCEPT !.sig = <<SliceLen(s.sig[1], 0, hi)>>,
            !.origin = <<s.origin[1] + SliceIndex(s.sig[1], 0)>>,
            !.proc = Append(@, "isig")]

\* s.rebin(scale=[1,1,2]): half the channels
rebin(s) == [s EXCEPT !.sig = <<s.sig[1] \div 2>>, !.proc = Append(@, "rebin")]

\* s.inav[x, y]: the spectrum at one position
inav_at(s) == [s EXCEPT !.nav = <<>>, !.ind = <<>>]

\* s.T: navigation and signal axes exchanged
transpose(s) ==
  [s EXCEPT !.nav = s.sig, !.sig = s.nav, !.ind = [i \in 1 .. Len(s.sig) |-> 0],
            !.origin = [i \in 1 .. Len(s.nav) |-> 0]]

\* s.to_eV(inplace): the energy axis and the Jacobian-scaled intensity, in
\* s itself or in a copy
converted(s) == [s EXCEPT !.axis = "eV", !.proc = Append(@, "jacobian")]
to_eV_always_inplace(h, id, inplace) ==
  Result(id, [h EXCEPT ![id] = converted(h[id])])
to_eV(h, id, inplace) ==
  IF inplace THEN Result(id, [h EXCEPT ![id] = converted(h[id])])
  ELSE New(h, converted(h[id]))

\* hs.signals.Signal1D(np.ones(size)) with set_signal_type("Luminescence")
model_signal(size, offset, scale) ==
  [Signal("LumiSpectrum", "", <<>>, <<size>>, "nm", <<>>, NoMeta)
     EXCEPT !.offset = offset, !.scale = scale]

\* the wavelength (nm) of sample i = 0, 1, ... of such a signal; after
\* to_eV the sample sits at the energy hc / wavelength
Wavelength(s, i) == s.offset + s.scale * i

\* the Jacobian factor hc / E^2 of the sample at wavelength w, times hc:
\* hc / E^2 = w^2 / hc
JacobianHc_linear(w) == w
JacobianHc(w) == w * w

\* a rational number
Ratio(num, den) == [num |-> num, den |-> den]

\* the intensity of sample i of a signal of ones, times hc when the signal
\* went through the Jacobian transformation
IntensityHc(s, i) ==
  IF \E k \in 1 .. Len(s.proc) : s.proc[k] = "jacobian"
  THEN JacobianHc(Wavelength(s, i)) ELSE 1

\* the area under the plotted curve of a wavelength signal of ones between
\* samples i and i+1: mean intensity times the distance of the samples
WavelengthIntegral(s, i) ==
  Ratio((1 + 1) * (Wavelength(s, i + 1) - Wavelength(s, i)), 2)

\* the same for the converted signal, between the energies of samples i
\* and i+1: ((I_a + I_b) / 2) * (hc/a - hc/b), where hc cancels
EnergyIntegral(s, i) ==
  LET a == Wavelength(s, i)
      b == Wavelength(s, i + 1)
  IN Ratio((IntensityHc(s, i) + IntensityHc(s, i + 1)) * (b - a), 2 * a * b)

\* s.plot(navigator=n) needs a navigator of the navigation shape of s
NavigatorFits(s, n) == n.sig = s.nav

(* ------------------------------ fitting ------------------------------- *)

\* a model component: its kind, whether it is active, the value of its
\* centre (position) parameter, the bounds of the centre and whether they
\* were set, and whether a fit has replaced the values the cells assigned.
\* The fitted centre of a component without bounds is not tracked.
Component(kind, centre) ==
  [kind |-> kind, active |-> TRUE, centre |-> centre, bmin |-> 0, bmax |-> 0,
   bounded |-> FALSE, fitted |-> FALSE]

NoModel == [sig |-> 0, comps |-> <<>>, fitAt |-> <<>>, fits |-> 0, assigned |-> <<>>]

\* s.create_model(): an empty model of signal s that shares its axes manager
create_model(id) == [NoModel EXCEPT !.sig = id]

\* the centres a fit with bounded=True may move: active, with bounds
Movable(comps) ==
  {i \in 1 .. Len(comps) : comps[i].active /\ comps[i].bounded}

\* the offsets a bounded centre can end at
Offsets == (0 - PeakWindow) .. PeakWindow

\* the optimiser has worked on every active component
Fitted(comps) ==
  [i \in 1 .. Len(comps) |-> [comps[i] EXCEPT !.fitted = @ \/ comps[i].active]]

\* m.fit(bounded): every moved centre ends within its bounds
FitOutcomes(comps, bounded) ==
  IF ~bounded THEN {Fitted(comps)}
  ELSE {[i \in 1 .. Len(comps) |->
           IF i \in DOMAIN d THEN [Fitted(comps)[i] EXCEPT !.centre = @ + d[i]]
           ELSE Fitted(comps)[i]] :
         d \in UNION {{e \in [S -> Offsets \ {0}] :
                         \A i \in S : /\ comps[i].centre + e[i] >= comps[i].bmin
                                      /\ comps[i].centre + e[i] <= comps[i].bmax} :
                      S \in {T \in SUBSET Movable(comps) : Cardinality(T) <= MaxMoved}}}

\* the navigation position a fit of model md works at: the indices of the
\* axes manager of the signal the model was created from
FitPosition(h, md) == h[md.sig].ind

(* ------------------------------- arrays ------------------------------- *)

RECURSIVE SeqSum(_)
SeqSum(data) == IF data = <<>> THEN 0 ELSE Head(data) + SeqSum(Tail(data))

(* ------------------------------ kernel -------------------------------- *)

\* the kernel takes the next cell or GUI event only when the callbacks of
\* the last event have all returned
KernelIdle_never_waits == TRUE
KernelIdle == pending = <<>>

At(label) ==
  /\ ~halted
  /\ KernelIdle
  /\ pc <= Len(Cells(nb))
  /\ Cells(nb)[pc] = label

\* an uncaught exception ends the run: the cells below are not executed
ErrorContinues == FALSE
StopOnError == TRUE

\* the cell ran to its end: its output is stored, the next cell is next
Finish(tk, text, wid) ==
  /\ pc' = pc + 1
  /\ halted' = FALSE
  /\ took' = [kind |-> Cells(nb)[pc], branch |-> tk.branch, iters |-> tk.iters]
  /\ execCount' = execCount + 1
  /\ out' = [out EXCEPT ![pc] = Output(text, execCount + 1, wid)]

\* an exception left the cell
Raise(tk, err) ==
  /\ pc' = IF StopOnError THEN pc ELSE pc + 1
  /\ halted' = StopOnError
  /\ took' = [kind |-> Cells(nb)[pc], branch |-> tk.branch, iters |-> tk.iters]
  /\ execCount' = execCount + 1
  /\ out' = [out EXCEPT ![pc] = Output(ErrorText(err), execCount + 1, 0)]

\* a mean kept exactly: the sum and the number of the values
Mean(data) == [sum |-> SeqSum(data), n |-> Len(data)]

NoScalars ==
  [bkg_path |-> "unbound", correction_factor_grating |-> "unbound",
   m_intensity |-> <<>>, mask_treshold |-> Mean(<<>>), mask |-> <<>>,
   shown |-> <<>>]

Init ==
  /\ nb \in Notebooks
  /\ file \in Files(nb)
  /\ pc = 1
  /\ halted = FALSE
  /\ took = NotStarted
  /\ execCount = 0
  /\ ns = [x \in Names |-> 0]
  /\ heap = <<>>
  /\ scalars = NoScalars
  /\ model = NoModel
  /\ out = [c \in 1 .. MaxCells |-> NoOut]
  /\ figs = <<>>
  /\ uuids = {}
  /\ roi = [r \in Rois |-> 0]
  /\ handlers = [r \in Rois |-> <<>>]
  /\ pending = <<>>

(* ------------------------- cells of every notebook -------------------- *)

\* the import cell
Import ==
  /\ At("import")
  /\ Finish(Straight, NoText, 0)
  /\ UNCHANGED <<nb, file, ns, heap, scalars, model, figs, uuids, roi, handlers, pending>>

\* a cell that displays, plots or computes something no modelled cell reads
View ==
  /\ At("view")
  /\ Finish(Straight, NoText, 0)
  /\ UNCHANGED <<nb, file, ns, heap, scalars, model, figs, uuids, roi, handlers, pending>>

\* a plot: the cell, the plotted signal, the navigator image (0: none)
Fig(sid, nid) == [cell |-> pc, signal |-> sid, navigator |-> nid]

\* x.plot()
Plot ==
  /\ At("plot")
  /\ figs' = Append(figs, Fig(ns[Arg(nb, pc).x], 0))
  /\ Finish(Straight, NoText, 0)
  /\ UNCHANGED <<nb, file, ns, heap, scalars, model, uuids, roi, handlers, pending>>

\* y = hs.load(...)
Load ==
  /\ At("load")
  /\ LET a == Arg(nb, pc) IN
       /\ heap' = Append(heap, load(nb, a.y, file))
       /\ ns' = [ns EXCEPT ![a.y] = Len(heap) + 1]
  /\ Finish(Straight, NoText, 0)
  /\ UNCHANGED <<nb, file, scalars, model, figs, uuids, roi, handlers, pending>>

\* y = x.crop_edges(crop_px=5)
Crop ==
  /\ At("crop")
  /\ LET a == Arg(nb, pc) IN
       /\ heap' = Append(heap, crop_edges(heap[ns[a.x]], CropPx))
       /\ ns' = [ns EXCEPT ![a.y] = Len(heap) + 1]
  /\ Finish(Straight, NoText, 0)
  /\ UNCHANGED <<nb, file, scalars, model, figs, uuids, roi, handlers, pending>>

\* y = x.to_eV(inplace=False), or x.to_eV(inplace=True)
ToEV ==
  /\ At("to_eV")
  /\ LET a == Arg(nb, pc)
         r == to_eV(heap, ns[a.x], a.inplace)
     IN /\ heap' = r.heap
        /\ ns' = IF a.inplace THEN ns ELSE [ns EXCEPT ![a.y] = r.id]
  /\ Finish(Straight, NoText, 0)
  /\ UNCHANGED <<nb, file, scalars, model, figs, uuids, roi, handlers, pending>>

\* x = x.isig[:-3]
Isig ==
  /\ At("isig")
  /\ LET a == Arg(nb, pc) IN
       /\ heap' = Append(heap, isig1(heap[ns[a.x]], 0 - LastPixels))
       /\ ns' = [ns EXCEPT ![a.y] = Len(heap) + 1]
  /\ Finish(Straight, NoText, 0)
  /\ UNCHANGED <<nb, file, scalars, model, figs, uuids, roi, handlers, pending>>

\* x = x.rebin(scale=[1,1,2])
Rebin ==
  /\ At("rebin")
  /\ LET a == Arg(nb, pc) IN
       /\ heap' = Append(heap, rebin(heap[ns[a.x]]))
       /\ ns' = [ns EXCEPT ![a.y] = Len(heap) + 1]
  /\ Finish(Straight, NoText, 0)
  /\ UNCHANGED <<nb, file, scalars, model, figs, uuids, roi, handlers, pending>>

\* a correction that works on x itself: remove_background, remove_spikes,
\* spikes_removal_tool, smooth_lowess.  An interactive tool changes the
\* data only if the user applies it.
Tool ==
  /\ At("tool")
  /\ LET a == Arg(nb, pc) IN
       \E applied \in (IF a.gui THEN BOOLEAN ELSE {TRUE}) :
         heap' = IF applied THEN [heap EXCEPT ![ns[a.x]].proc = Append(@, a.tag)]
                 ELSE heap
  /\ Finish(Straight, NoText, 0)
  /\ UNCHANGED <<nb, file, ns, scalars, model, figs, uuids, roi, handlers, pending>>

\* x.add_marker([mrk, mrkl, mrkr], permanent=True)
Markers ==
  /\ At("markers")
  /\ heap' = [heap EXCEPT ![ns[Arg(nb, pc).x]].markers = @ + 3]
  /\ Finish(Straight, NoText, 0)
  /\ UNCHANGED <<nb, file, ns, scalars, model, figs, uuids, roi, handlers, pending>>

\* x.set_signal_type('CL_SEM')
SetType ==
  /\ At("set_type")
  /\ heap' = [heap EXCEPT ![ns[Arg(nb, pc).x]].cls = Arg(nb, pc).tag]
  /\ Finish(Straight, NoText, 0)
  /\ UNCHANGED <<nb, file, ns, scalars, model, figs, uuids, roi, handlers, pending>>

\* x.metadata.set_item('General.title', 'demo spectrum')
SetItem ==
  /\ At("set_item")
  /\ heap' = [heap EXCEPT ![ns[Arg(nb, pc).x]].title = Arg(nb, pc).tag]
  /\ Finish(Straight, NoText, 0)
  /\ UNCHANGED <<nb, file, ns, scalars, model, figs, uuids, roi, handlers, pending>>

\* m = x.create_model()
CreateModel ==
  /\ At("create_model")
  /\ model' = create_model(ns[Arg(nb, pc).x])
  /\ Finish(Straight, NoText, 0)
  /\ UNCHANGED <<nb, file, ns, heap, scalars, figs, uuids, roi, handlers, pending>>

\* m.multifit(bounded): a fit at every position, the current one included
Multifit ==
  /\ At("multifit")
  /\ \E cs \in FitOutcomes(model.comps, Arg(nb, pc).tag = "bounded") :
       model' = [model EXCEPT !.comps = cs, !.fits = @ + 1]
  /\ Finish(Straight, NoText, 0)
  /\ UNCHANGED <<nb, file, ns, heap, scalars, figs, uuids, roi, handlers, pending>>

(* --------------------------- interactive ROIs ------------------------- *)

Callback(kind, r, src, dst) == [kind |-> kind, roi |-> r, src |-> src, dst |-> dst]

\* r.interactive(x) bound to y: the slice of x at the position of r, kept
\* up to date by a callback on r.events.changed
roi_interactive(st, r, x, y) ==
  LET h == Append(st.heap, [st.heap[st.ns[x]] EXCEPT !.at = st.roi[r]]) IN
    [st EXCEPT !.heap = h, !.ns[y] = Len(h),
               !.handlers[r] = Append(@, Callback("slice", r, x, y))]

\* hs.interactive(x.sum, event=r.events.changed) bound to y
hs_interactive(st, r, x, y) ==
  LET h == Append(st.heap, [st.heap[st.ns[x]] EXCEPT !.proc = Append(@, "reduce")]) IN
    [st EXCEPT !.heap = h, !.ns[y] = Len(h),
               !.handlers[r] = Append(@, Callback("reduce", r, x, y))]

\* hs.roi.SpanROI(left, right): at the declared position
span_roi(st, r) == [st EXCEPT !.roi[r] = 1]

Objects == [heap |-> heap, ns |-> ns, roi |-> roi, handlers |-> handlers]

\* the streak01 cell of the Glasgow notebook
GlasgowRoiCell(st) ==
  LET s1 == span_roi(span_roi(st, "roi1"), "roi2")
      s2 == roi_interactive(s1, "roi1", "streak01", "sliced_signal1")
      s3 == roi_interactive(s2, "roi2", "streak01", "sliced_signal2")
      s4 == hs_interactive(s3, "roi1", "sliced_signal1", "integrated_sliced_signal1")
  IN hs_interactive(s4, "roi2", "sliced_signal2", "integrated_sliced_signal2")

\* the chromatic imaging cell of the Grenoble notebook
GrenobleRoiCell(st) ==
  LET h == Append(st.heap, transpose(st.heap[st.ns["cl1"]]))
      s1 == span_roi([st EXCEPT !.heap = h, !.ns["im"] = Len(h)], "roi1")
      s2 == roi_interactive(s1, "roi1", "im", "im_roi1")
  IN hs_interactive(s2, "roi1", "im_roi1", "im_roi1_mean")

Roi ==
  /\ At("roi")
  /\ LET st == IF nb = "GLASGOW" THEN GlasgowRoiCell(Objects) ELSE GrenobleRoiCell(Objects) IN
       /\ heap' = st.heap
       /\ ns' = st.ns
       /\ roi' = st.roi
       /\ handlers' = st.handlers
  /\ Finish(Straight, NoText, 0)
  /\ UNCHANGED <<nb, file, scalars, model, figs, uuids, pending>>

\* the user drags region r to position p: events.changed is triggered
MoveROI ==
  /\ KernelIdle
  /\ \E r \in Rois, p \in 1 .. MaxRoiPos :
       /\ roi[r] # 0
       /\ roi[r] # p
       /\ roi' = [roi EXCEPT ![r] = p]
       /\ pending' = handlers[r]
  /\ UNCHANGED <<nb, file, pc, halted, took, execCount, ns, heap, scalars, model, out,
                 figs, uuids, handlers>>

\* the next connected callback runs: the slice is taken again at the new
\* position, or the reduction is computed again from the slice
RunCallback ==
  /\ pending # <<>>
  /\ LET cb == Head(pending) IN
       heap' = [heap EXCEPT ![ns[cb.dst]].at =
                  IF cb.kind = "slice" THEN roi[cb.roi] ELSE heap[ns[cb.src]].at]
  /\ pending' = Tail(pending)
  /\ UNCHANGED <<nb, file, pc, halted, took, execCount, ns, scalars, model, out,
                 figs, uuids, roi, handlers>>

(* ------------------------ interactive re-execution -------------------- *)

\* the cells that rebind a name to a function of itself, or extend the
\* model they work on
Rebinding == {"isig", "gre_advanced"}

\* the number of times cell c has been executed since its operand was
\* loaded or its model created: each execution leaves its mark on the
\* signal or on the model
Executions(c) ==
  IF Cells(nb)[c] = "isig"
  THEN Len(SelectSeq(heap[ns[Arg(nb, c).y]].proc, LAMBDA t : t = "isig"))
  ELSE model.fits - 1

\* the user executes the cell that has just run once more, before going on
Select ==
  /\ ~halted
  /\ KernelIdle
  /\ pc > 1
  /\ Cells(nb)[pc - 1] \in Rebinding
  /\ out[pc - 1] # NoOut
  /\ Executions(pc - 1) <= MaxReruns
  /\ pc' = pc - 1
  /\ UNCHANGED <<nb, file, halted, took, execCount, ns, heap, scalars, model, out,
                 figs, uuids, roi, handlers, pending>>

(* ------------------------- AttolightSEM_HYP --------------------------- *)

\* cl_sem = lum.load(hypcard_path); cl_sem
hyp_load ==
  /\ At("hyp_load")
  /\ heap' = Append(heap, load_hypcard(file))
  /\ ns' = [ns EXCEPT !["cl_sem"] = Len(heap) + 1]
  /\ Finish(Straight, Repr(load_hypcard(file)), 0)
  /\ UNCHANGED <<nb, file, scalars, model, figs, uuids, roi, handlers, pending>>

\* cl_sem.metadata.Signal.background is not None
hyp_bkgcheck ==
  /\ At("hyp_bkgcheck")
  /\ Finish(Straight, BoolText(heap[ns["cl_sem"]].meta.bkg), 0)
  /\ UNCHANGED <<nb, file, ns, heap, scalars, model, figs, uuids, roi, handlers, pending>>

\* cl_sem_bkg = cl_sem; cl_sem_bkg = cl_sem.background_subtraction()
hyp_bkgsub ==
  /\ At("hyp_bkgsub")
  /\ LET alias == [ns EXCEPT !["cl_sem_bkg"] = ns["cl_sem"]]
         r == background_subtraction(heap, alias["cl_sem"], FALSE)
     IN IF heap[ns["cl_sem"]].meta.bkg
        THEN \E u \in (1 .. MaxUuid) \ uuids :
               /\ heap' = r.heap
               /\ ns' = [alias EXCEPT !["cl_sem_bkg"] = r.id]
               /\ uuids' = uuids \cup {u}
               /\ Finish(Straight, Progress(heap[ns["cl_sem"]]), u)
        ELSE \* no background stored with the map
             /\ ns' = alias
             /\ Raise(Took("raise", 0), "ValueError")
             /\ UNCHANGED <<heap, uuids>>
  /\ UNCHANGED <<nb, file, scalars, model, figs, roi, handlers, pending>>

\* cl_sem_bkg.correct_grating_shift()
hyp_shift ==
  /\ At("hyp_shift")
  /\ \E u \in (1 .. MaxUuid) \ uuids :
       /\ heap' = correct_grating_shift(heap, ns["cl_sem_bkg"])
       /\ uuids' = uuids \cup {u}
       /\ Finish(Straight, Progress(heap[ns["cl_sem_bkg"]]), u)
  /\ UNCHANGED <<nb, file, ns, scalars, model, figs, roi, handlers, pending>>

\* cl_sem_bkg_spikes = cl_sem_bkg.cosmic_rays_subtraction(extra_percent=50)
hyp_spikes ==
  /\ At("hyp_spikes")
  /\ \E u \in (1 .. MaxUuid) \ uuids :
       /\ heap' = Append(heap, cosmic_rays_subtraction(heap[ns["cl_sem_bkg"]]))
       /\ ns' = [ns EXCEPT !["cl_sem_bkg_spikes"] = Len(heap) + 1]
       /\ uuids' = uuids \cup {u}
       /\ Finish(Straight, Progress(heap[ns["cl_sem_bkg"]]), u)
  /\ UNCHANGED <<nb, file, scalars, model, figs, roi, handlers, pending>>

\* SE = lum.hyperspyload(se_path)
hyp_seload ==
  /\ At("hyp_seload")
  /\ heap' = Append(heap, load_se(file))
  /\ ns' = [ns EXCEPT !["SE"] = Len(heap) + 1]
  /\ Finish(Straight, NoText, 0)
  /\ UNCHANGED <<nb, file, scalars, model, figs, uuids, roi, handlers, pending>>

\* try: crop the SE image and plot with it; except: plot with SE
hyp_senav ==
  /\ At("hyp_senav")
  /\ LET cl == ns["cl_sem_bkg_spikes"]
         m == heap[cl].meta
         crop == m.cropped
         size_x == m.resx
         size_y == m.resx
         cropped == isig2(heap[ns["SE"]], crop, size_x - crop, crop, size_y - crop)
     IN IF m.cropped = 0 \/ m.resx = 0
        THEN \* AttributeError in the try block, before SE is rebound
             /\ UNCHANGED <<heap, ns>>
             /\ IF NavigatorFits(heap[cl], heap[ns["SE"]])
                THEN /\ figs' = Append(figs, Fig(cl, ns["SE"]))
                     /\ Finish(Took("except", 0), NoText, 0)
                ELSE /\ figs' = figs
                     /\ Raise(Took("except raise", 0), "ValueError")
        ELSE /\ heap' = Append(heap, cropped)
             /\ ns' = [ns EXCEPT !["SE"] = Len(heap) + 1]
             /\ IF NavigatorFits(heap[cl], cropped)
                THEN /\ figs' = Append(figs, Fig(cl, Len(heap) + 1))
                     /\ Finish(Took("try", 0), NoText, 0)
                ELSE \* the plot in the try block raised: the handler plots
                     \* with the SE rebound in the try block, and raises too
                     /\ figs' = figs
                     /\ Raise(Took("except raise", 0), "ValueError")
  /\ UNCHANGED <<nb, file, scalars, model, uuids, roi, handlers, pending>>

(* ----------------------- AttolightSEM_sur_to_hspy --------------------- *)

\* try: bkg_path = glob.glob(...)[0]  except IndexError: bkg_path = ''
sur_bkgpath ==
  /\ At("sur_bkgpath")
  /\ IF file.hasBkg
     THEN /\ scalars' = [scalars EXCEPT !.bkg_path = "background.txt"]
          /\ Finish(Took("try", 0), NoText, 0)
     ELSE /\ scalars' = [scalars EXCEPT !.bkg_path = ""]
          /\ Finish(Took("except", 0), Text("print", "Please, specify", <<>>), 0)
  /\ UNCHANGED <<nb, file, ns, heap, model, figs, uuids, roi, handlers, pending>>

\* cl_bkg = np.loadtxt(bkg_path)[1]; cl = cl - cl_bkg
sur_bkgsub ==
  /\ At("sur_bkgsub")
  /\ IF scalars.bkg_path = ""
     THEN /\ Raise(Took("raise", 0), "FileNotFoundError")
          /\ UNCHANGED <<heap, ns>>
     ELSE /\ heap' = Append(heap, [heap[ns["cl"]] EXCEPT !.proc = Append(@, "bkg")])
          /\ ns' = [ns EXCEPT !["cl"] = Len(heap) + 1]
          /\ Finish(Straight, Text("print", "shape", <<file.n>>), 0)
  /\ UNCHANGED <<nb, file, scalars, model, figs, uuids, roi, handlers, pending>>

\* if grating == 150: ... elif grating == 600: ... else: raise ImportError
sur_grating ==
  /\ At("sur_grating")
  /\ IF file.grating = Grating150
     THEN /\ scalars' = [scalars EXCEPT !.correction_factor_grating = "2.73E-04"]
          /\ Finish(Took("if", 0), NoText, 0)
     ELSE IF file.grating = Grating600
     THEN /\ scalars' = [scalars EXCEPT !.correction_factor_grating = "6.69E-05"]
          /\ Finish(Took("elif", 0), NoText, 0)
     ELSE /\ scalars' = scalars
          /\ Raise(Took("else raise", 0), "ImportError")
  /\ UNCHANGED <<nb, file, ns, heap, model, figs, uuids, roi, handlers, pending>>

\* cl.correct_grating_shift(*grating_calibrations.values())
sur_shift ==
  /\ At("sur_shift")
  /\ heap' = correct_grating_shift(heap, ns["cl"])
  /\ Finish(Straight, NoText, 0)
  /\ UNCHANGED <<nb, file, ns, scalars, model, figs, uuids, roi, handlers, pending>>

(* ------------------------------ Grenoble ------------------------------ *)

\* cl1 = hs.load(...); cl2 = hs.load(...); cl3 = hs.load(...)
gre_load ==
  /\ At("gre_load")
  /\ heap' = heap \o << load(nb, "cl1", file), load(nb, "cl2", file), load(nb, "cl3", file) >>
  /\ ns' = [ns EXCEPT !["cl1"] = Len(heap) + 1, !["cl2"] = Len(heap) + 2,
                      !["cl3"] = Len(heap) + 3]
  /\ Finish(Straight, NoText, 0)
  /\ UNCHANGED <<nb, file, scalars, model, figs, uuids, roi, handlers, pending>>

\* s = hs.signals.Signal1D(np.ones(101)); s2 = s.to_eV(inplace=False)
gre_jacobian_s ==
  /\ At("gre_jacobian_s")
  /\ LET h == Append(heap, model_signal(AxisSize, AxisOffset, AxisScale))
         r == to_eV(h, Len(h), FALSE)
     IN /\ heap' = r.heap
        /\ ns' = [ns EXCEPT !["s"] = Len(h), !["s2"] = r.id]
  /\ Finish(Straight, NoText, 0)
  /\ UNCHANGED <<nb, file, scalars, model, figs, uuids, roi, handlers, pending>>

\* y2 = hs.signals.Signal1D(np.ones(9)); y2.to_eV()
gre_jacobian_y ==
  /\ At("gre_jacobian_y")
  /\ LET h == Append(heap, model_signal(9, 300, 50))
         r == to_eV(h, Len(h), to_eV_default)
     IN /\ heap' = r.heap
        /\ ns' = [ns EXCEPT !["y2"] = Len(h)]
  /\ Finish(Straight, NoText, 0)
  /\ UNCHANGED <<nb, file, scalars, model, figs, uuids, roi, handlers, pending>>

\* bkg = Offset(); g1 = GaussianHF(); m.extend([g1, bkg])
gre_components ==
  /\ At("gre_components")
  /\ model' = [model EXCEPT !.comps = @ \o << Component("GaussianHF", 0), Component("Offset", 0) >>]
  /\ Finish(Straight, NoText, 0)
  /\ UNCHANGED <<nb, file, ns, heap, scalars, figs, uuids, roi, handlers, pending>>

\* cl1.axes_manager.indices = (7,7); g1.centre.value = 2.4; ...
gre_start ==
  /\ At("gre_start")
  /\ heap' = [heap EXCEPT ![ns["cl1"]].ind = <<ChosenIndex, ChosenIndex>>]
  /\ model' = [model EXCEPT !.comps[1].centre = G1Centre]
  /\ Finish(Straight, NoText, 0)
  /\ UNCHANGED <<nb, file, ns, scalars, figs, uuids, roi, handlers, pending>>

\* g1.centre.bmax = g1.centre.value + 0.2; g1.centre.bmin = g1.centre.value - 0.2
gre_bounds ==
  /\ At("gre_bounds")
  /\ model' = [model EXCEPT !.comps[1].bmax = model.comps[1].centre + G1Window,
                            !.comps[1].bmin = model.comps[1].centre - G1Window,
                            !.comps[1].bounded = TRUE]
  /\ Finish(Straight, NoText, 0)
  /\ UNCHANGED <<nb, file, ns, heap, scalars, figs, uuids, roi, handlers, pending>>

\* the centre values of the components
Centres(comps) == [i \in 1 .. Len(comps) |-> comps[i].centre]

\* m.fit(bounded=True); m.assign_current_values_to_all(); m.plot()
gre_fit ==
  /\ At("gre_fit")
  /\ \E cs \in FitOutcomes(model.comps, TRUE) :
       model' = [model EXCEPT !.comps = cs, !.fitAt = FitPosition(heap, model),
                              !.fits = @ + 1, !.assigned = Centres(cs)]
  /\ Finish(Straight, NoText, 0)
  /\ UNCHANGED <<nb, file, ns, heap, scalars, figs, uuids, roi, handlers, pending>>

\* m_centre = g1.centre.as_signal(); m_intensity = g1.height.as_signal()
gre_as_signal ==
  /\ At("gre_as_signal")
  /\ scalars' = [scalars EXCEPT !.m_intensity = file.heights]
  /\ Finish(Straight, NoText, 0)
  /\ UNCHANGED <<nb, file, ns, heap, model, figs, uuids, roi, handlers, pending>>

\* x > mean and x >= mean, without the division of the mean
Greater_or_equal(x, mean) == x * mean.n >= mean.sum
Greater(x, mean) == x * mean.n > mean.sum

\* mask_treshold = m_intensity.data.mean()
\* mask = m_intensity.data > mask_treshold
gre_mask ==
  /\ At("gre_mask")
  /\ LET data == scalars.m_intensity
         threshold == Mean(data)
     IN scalars' = [scalars EXCEPT
          !.mask_treshold = threshold,
          !.mask = [i \in 1 .. Len(data) |-> Greater(data[i], threshold)]]
  /\ Finish(Straight, NoText, 0)
  /\ UNCHANGED <<nb, file, ns, heap, model, figs, uuids, roi, handlers, pending>>

\* (m_centre * mask).plot(...): a position shows its centre where the mask
\* is True and 0 where it is False
gre_masked ==
  /\ At("gre_masked")
  /\ scalars' = [scalars EXCEPT !.shown = scalars.mask]
  /\ Finish(Straight, NoText, 0)
  /\ UNCHANGED <<nb, file, ns, heap, model, figs, uuids, roi, handlers, pending>>

\* g1 = SkewNormal(); g1.x0.value=655; g1.x0.bmin=635; g1.x0.bmax=675;
\* g1.x0.bounded=True
SkewNormal655 ==
  [Component("SkewNormal", 655) EXCEPT !.bmin = 635, !.bmax = 675, !.bounded = TRUE]

\* cl3 = cl3.inav[10,8]; m = cl3.create_model(); m.extend((g1,g2)); m.fit()
gre_model3 ==
  /\ At("gre_model3")
  /\ heap' = Append(heap, inav_at(heap[ns["cl3"]]))
  /\ ns' = [ns EXCEPT !["cl3"] = Len(heap) + 1]
  /\ \E cs \in FitOutcomes(<< SkewNormal655, Component("GaussianHF", 580) >>, FALSE) :
       model' = [create_model(Len(heap) + 1) EXCEPT
                   !.comps = cs, !.fitAt = <<>>, !.fits = 1]
  /\ Finish(Straight, NoText, 0)
  /\ UNCHANGED <<nb, file, scalars, figs, uuids, roi, handlers, pending>>

\* getPeaks(S2): the positions of the peaks found, at most maxpeakn
getPeaks(f) == [i \in 1 .. Min(f.npeaks, maxpeakn) |-> PeakPosition(f, i)]

\* for i in np.arange(ng): g.append(GaussianHF()); m.extend(g)
AppendGaussians_in_place(comps) ==
  SubSeq(comps, 1, 2) \o [i \in 1 .. ng |-> Component("GaussianHF", 0)]
AppendGaussians(comps) ==
  comps \o [i \in 1 .. ng |-> Component("GaussianHF", 0)]

\* for i in np.arange(np.size(peaks)): g[i].centre.value = position, ...
\* base is the number of components m held before g was appended
SetPeaks(comps, base, peaks) ==
  [j \in 1 .. Len(comps) |->
     IF j > base /\ j - base <= Len(peaks)
     THEN [comps[j] EXCEPT !.centre = peaks[j - base],
                           !.bmin = peaks[j - base] - PeakWindow,
                           !.bmax = peaks[j - base] + PeakWindow,
                           !.bounded = TRUE]
     ELSE comps[j]]

\* if np.size(peaks)<ng: for i in np.arange(np.size(peaks),ng): g[i].active = False
Deactivate_from_next(comps, base, k) ==
  [j \in 1 .. Len(comps) |->
     IF k < ng /\ j - base > k + 1 /\ j - base <= ng
     THEN [comps[j] EXCEPT !.active = FALSE] ELSE comps[j]]
Deactivate(comps, base, k) ==
  [j \in 1 .. Len(comps) |->
     IF k < ng /\ j - base > k /\ j - base <= ng
     THEN [comps[j] EXCEPT !.active = FALSE] ELSE comps[j]]

\* the advanced fitting cell
gre_advanced ==
  /\ At("gre_advanced")
  /\ LET r == deepcopy(heap, ns["cl3"]) IN
       /\ heap' = r.heap
       /\ ns' = [ns EXCEPT !["S2"] = r.id]
  /\ LET base == Len(model.comps)
         peaks == getPeaks(file)
         k == Len(peaks)
         set == Deactivate(SetPeaks(AppendGaussians(model.comps), base, peaks), base, k)
     IN /\ \E cs \in FitOutcomes(set, TRUE) :
             model' = [model EXCEPT !.comps = cs, !.fits = @ + 1]
        /\ Finish(Took(IF k < ng THEN "if" ELSE "skip", k), NoText, 0)
  /\ UNCHANGED <<nb, file, scalars, figs, uuids, roi, handlers, pending>>

(* ------------------------------- Rouen -------------------------------- *)

\* cl2a = cl2.deepcopy(); cl2.smooth_lowess(number_of_iterations = 2)
rou_copy ==
  /\ At("rou_copy")
  /\ LET r == deepcopy(heap, ns["cl2"]) IN
       /\ heap' = [r.heap EXCEPT ![ns["cl2"]].proc = Append(@, "smooth")]
       /\ ns' = [ns EXCEPT !["cl2a"] = r.id]
  /\ Finish(Straight, NoText, 0)
  /\ UNCHANGED <<nb, file, scalars, model, figs, uuids, roi, handlers, pending>>

\* g1 = SkewNormal(); m.append(g1)
rou_component ==
  /\ At("rou_component")
  /\ model' = [model EXCEPT !.comps = Append(@, Component("SkewNormal", 0))]
  /\ Finish(Straight, NoText, 0)
  /\ UNCHANGED <<nb, file, ns, heap, scalars, figs, uuids, roi, handlers, pending>>

(* ------------------------------ the system ---------------------------- *)

Next ==
  \/ Import
  \/ View
  \/ Plot
  \/ Load
  \/ Crop
  \/ ToEV
  \/ Isig
  \/ Rebin
  \/ Tool
  \/ Markers
  \/ SetType
  \/ SetItem
  \/ CreateModel
  \/ Multifit
  \/ Roi
  \/ MoveROI
  \/ RunCallback
  \/ hyp_load
  \/ hyp_bkgcheck
  \/ hyp_bkgsub
  \/ hyp_shift
  \/ hyp_spikes
  \/ hyp_seload
  \/ hyp_senav
  \/ sur_bkgpath
  \/ sur_bkgsub
  \/ sur_grating
  \/ sur_shift
  \/ gre_load
  \/ gre_jacobian_s
  \/ gre_jacobian_y
  \/ gre_components
  \/ gre_start
  \/ gre_bounds
  \/ gre_fit
  \/ gre_as_signal
  \/ gre_mask
  \/ gre_masked
  \/ gre_model3
  \/ gre_advanced
  \/ rou_copy
  \/ rou_component

Spec == Init /\ [][Next]_vars

(* ------------------- the Grenoble tutorial on its own ------------------ *)

\* a kernel that runs the Grenoble tutorial
Fresh(n) ==
  /\ nb = n
  /\ pc = 1
  /\ halted = FALSE
  /\ took = NotStarted
  /\ execCount = 0
  /\ ns = [x \in Names |-> 0]
  /\ heap = <<>>
  /\ scalars = NoScalars
  /\ model = NoModel
  /\ out = [c \in 1 .. MaxCells |-> NoOut]
  /\ figs = <<>>
  /\ uuids = {}
  /\ roi = [r \in Rois |-> 0]
  /\ handlers = [r \in Rois |-> <<>>]
  /\ pending = <<>>

NextGrenoble ==
  \/ Import
  \/ View
  \/ ToEV
  \/ Isig
  \/ Rebin
  \/ Tool
  \/ Markers
  \/ CreateModel
  \/ Multifit
  \/ Roi
  \/ MoveROI
  \/ RunCallback
  \/ gre_load
  \/ gre_jacobian_s
  \/ gre_jacobian_y
  \/ gre_components
  \/ gre_start
  \/ gre_bounds
  \/ gre_fit
  \/ gre_as_signal
  \/ gre_mask
  \/ gre_masked
  \/ gre_model3
  \/ gre_advanced

\* the tutorial on the demo map, with every fitted height map
InitMaps == Fresh("GRENOBLE") /\ file \in GrenobleMapFiles
SpecMaps == InitMaps /\ [][NextGrenoble]_vars

(* ------------------- interactive re-execution of cells ----------------- *)

\* the Gatan and the Grenoble notebook, with cells executed again and the
\* ROI widgets left where they were created
NextRerun ==
  \/ Import
  \/ View
  \/ Load
  \/ ToEV
  \/ Isig
  \/ Rebin
  \/ Tool
  \/ Markers
  \/ SetType
  \/ SetItem
  \/ CreateModel
  \/ Multifit
  \/ Roi
  \/ Select
  \/ gre_load
  \/ gre_jacobian_s
  \/ gre_jacobian_y
  \/ gre_components
  \/ gre_start
  \/ gre_bounds
  \/ gre_fit
  \/ gre_as_signal
  \/ gre_mask
  \/ gre_masked
  \/ gre_model3
  \/ gre_advanced

InitRerun ==
  \/ Fresh("GATAN") /\ file \in GatanFiles
  \/ Fresh("GRENOBLE") /\ file \in GrenobleRerunFiles
SpecRerun == InitRerun /\ [][NextRerun]_vars

(* ============================ the claims ============================== *)

\* cell c of notebook n has been executed
Ran(n, c) == nb = n /\ out[c] # NoOut
\* ... and no exception left it
Done(n, c) == Ran(n, c) /\ out[c].text.kind # "error"

\* the cells whose continuation depends on the loaded data: a branch, a
\* data-dependent loop, a caught or an uncaught exception
BranchKinds ==
  {"sur_bkgpath", "sur_bkgsub", "sur_grating", "hyp_bkgsub", "hyp_senav",
   "gre_advanced"}

Consistent ==
  \A r \in Rois : \A i \in 1 .. Len(handlers[r]) :
    heap[ns[handlers[r][i].dst]].at = roi[r]

IsDemo ==
  /\ file.w = DemoScan /\ file.h = DemoScan /\ file.n = DemoChannels
  /\ file.hasBkg

\* the progress maxima stored in AttolightSEM_HYP.ipynb
StoredMaxBefore == 4096
StoredMaxAfter == 2916

\* the outputs stored in AttolightSEM_HYP.ipynb: text, execution count and
\* widget model id (the three stored ids numbered 1, 2, 3)
StoredCells == {2, 4, 5, 6, 8}
Stored(c) ==
  CASE c = 2 -> Output(Text("repr", "CLSEMSpectrum",
                            <<"load_from_AttoLightSEM", <<64, 64>>, <<1024>> >>), 18, 0)
    [] c = 4 -> Output(BoolText(TRUE), 20, 0)
    [] c = 5 -> Output(Text("progress", "IntProgress", <<0, StoredMaxBefore>>), 21, 1)
    [] c = 6 -> Output(Text("progress", "IntProgress", <<0, StoredMaxBefore>>), 22, 2)
    [] c = 8 -> Output(Text("progress", "IntProgress", <<0, StoredMaxAfter>>), 24, 3)

\* C3 as stated: a run from a fresh kernel on the demo files gives every
\* cell the output stored in the notebook.
C3_OutputsEqualStored ==
  \A c \in StoredCells : (Ran("HYP", c) /\ IsDemo) => out[c] = Stored(c)

\* C3 amended: a run from a fresh kernel on the demo files reproduces the
\* stored text/plain of every cell with a stored output, with execution
\* counts 1, 2, 3, ... in cell order instead of the stored ones.
C3_TextReproduced ==
  \A c \in StoredCells :
    (Ran("HYP", c) /\ IsDemo) =>
      /\ out[c].text = Stored(c).text
      /\ out[c].count = c
      /\ out[c].count # Stored(c).count

C3_Witness == Ran("HYP", 8) /\ IsDemo /\ out[8].text.kind = "progress"

\* the plots cell c made
InCell(f, c) == f.cell = c
PlotsOf(c) == SelectSeq(figs, LAMBDA f : InCell(f, c))

\* the cropping metadata the SE-navigator cell reads is absent
MetaAbsent ==
  LET m == heap[ns["cl_sem_bkg_spikes"]].meta IN m.cropped = 0 \/ m.resx = 0

\* C4 as stated: when the cropping metadata is absent, no exception leaves
\* the SE-navigator cell and the CL signal is plotted exactly once, with
\* the unmodified SE image as navigator.
C4_FallbackPlotsOnce ==
  (Ran("HYP", 13) /\ MetaAbsent) =>
    /\ out[13].text.kind # "error"
    /\ Len(PlotsOf(13)) = 1
    /\ PlotsOf(13)[1].signal = ns["cl_sem_bkg_spikes"]
    /\ heap[PlotsOf(13)[1].navigator] = load_se(file)

\* C5 as stated: when the map was cropped, the SE image after the try
\* block has the navigation shape of the cropped map, for every scan size.
C5_SECroppedToMatch ==
  (Ran("HYP", 13) /\ ~MetaAbsent) =>
    /\ heap[ns["SE"]].sig = <<file.w - 2 * CropPx, file.h - 2 * CropPx>>
    /\ heap[ns["SE"]].sig = heap[ns["cl_sem_bkg_spikes"]].nav

\* C6: crop_edges(crop_px=n) turns a W x H map into a (W-2n) x (H-2n) map
\* with the signal axis unchanged; on the 64 x 64 demo map the spike
\* removal then iterates over 2916 positions instead of 4096.
C6_CropEdges ==
  /\ Ran("HYP", 7) =>
       /\ heap[ns["cl_sem_bkg"]].nav = <<file.w - 2 * CropPx, file.h - 2 * CropPx>>
       /\ heap[ns["cl_sem_bkg"]].sig = <<file.n>>
       /\ heap[ns["cl_sem_bkg"]].sig = heap[ns["cl_sem"]].sig
  /\ Ran("SUR", 10) =>
       /\ heap[ns["cl"]].nav = <<file.w - 2 * CropPx, file.h - 2 * CropPx>>
       /\ heap[ns["cl"]].sig = <<file.n>>
  /\ (Ran("HYP", 8) /\ IsDemo) =>
       /\ out[6].text.dims[2] = StoredMaxBefore
       /\ out[8].text.dims[2] = StoredMaxAfter
       /\ StoredMaxAfter = (DemoScan - 2 * CropPx) * (DemoScan - 2 * CropPx)

C6_Witness == Ran("HYP", 8) /\ IsDemo /\ heap[ns["cl_sem_bkg"]].nav = <<54, 54>>

\* C7: background_subtraction() returns a copy and leaves cl_sem as it was
\* loaded; none of the later corrections of cl_sem_bkg changes cl_sem.
C7_OriginalUnchanged ==
  Ran("HYP", 2) =>
    /\ heap[ns["cl_sem"]] = load_hypcard(file)
    /\ Done("HYP", 5) =>
         /\ ns["cl_sem_bkg"] # ns["cl_sem"]
         /\ heap[ns["cl_sem_bkg"]].proc[1] = "bkg"

C7_Witness ==
  /\ Ran("HYP", 8)
  /\ heap[ns["cl_sem_bkg_spikes"]].proc = <<"bkg", "shift", "crop", "spikes">>

\* C8: to_eV(inplace=False) returns a new object with the energy axis and
\* leaves the signal it was called on as it was; to_eV() and
\* to_eV(inplace=True) put the energy axis into the existing object and
\* create no new one.
C8_ToEV ==
  [][ /\ (pc' = pc + 1 /\ Cells(nb)[pc] = "to_eV") =>
           LET a == Arg(nb, pc)
               x == ns[a.x]
           IN IF a.inplace
              THEN /\ ns' = ns
                   /\ Len(heap') = Len(heap)
                   /\ heap[x].axis = "nm"
                   /\ heap'[x].axis = "eV"
              ELSE /\ heap'[x] = heap[x]
                   /\ heap[x].axis = "nm"
                   /\ ns'[a.x] = x
                   /\ ns'[a.y] = Len(heap) + 1
                   /\ Len(heap') = Len(heap) + 1
                   /\ heap'[ns'[a.y]].axis = "eV"
      /\ (pc' = pc + 1 /\ Cells(nb)[pc] = "gre_jacobian_s") =>
           /\ Len(heap') = Len(heap) + 2
           /\ ns'["s"] # ns'["s2"]
           /\ heap'[ns'["s"]].axis = "nm"
           /\ heap'[ns'["s2"]].axis = "eV"
      /\ (pc' = pc + 1 /\ Cells(nb)[pc] = "gre_jacobian_y") =>
           /\ Len(heap') = Len(heap) + 1
           /\ heap'[ns'["y2"]].axis = "eV"
    ]_vars

C8_Witness ==
  /\ Done("GRENOBLE", 21)
  /\ ns["cl1_eV"] # ns["cl1"]
  /\ heap[ns["cl1"]].axis = "nm"
  /\ heap[ns["cl1_eV"]].axis = "eV"
  /\ heap[ns["y2"]].axis = "eV"

\* C9 as stated: m.fit(bounded=True) fits at the navigation position (7,7)
\* chosen by the preceding cell, and assign_current_values_to_all() copies
\* the values fitted there to all positions.
C9_FitAtChosen ==
  (nb = "GRENOBLE" /\ pc = 30) =>
    /\ model.fitAt = <<ChosenIndex, ChosenIndex>>
    /\ model.assigned = Centres(model.comps)

\* the number of peaks getPeaks returned
FoundPeaks == Len(getPeaks(file))
\* g[i], i = 0 .. ng-1, in the model of the advanced fitting cell
g(i) == model.comps[Len(model.comps) - ng + i + 1]

\* C10 as stated: after the advanced fitting cell, g[0..k-1] are active
\* with centre.value equal to the positions of the k peaks found, and
\* g[k..9] are inactive.
C10_CentreAtPeak ==
  Done("GRENOBLE", 48) =>
    \A i \in 0 .. ng - 1 :
      /\ g(i).kind = "GaussianHF"
      /\ i < FoundPeaks => (g(i).active /\ g(i).centre = PeakPosition(file, i + 1))
      /\ i >= FoundPeaks => ~g(i).active

\* C10 amended: after the advanced fitting cell, g[0..k-1] are active with
\* centre.value within 3 of the position of their peak (the bounds the
\* cell gave the fit), and g[k..9] are inactive and were not fitted.
C10_ActiveByPeaks ==
  Done("GRENOBLE", 48) =>
    /\ Len(model.comps) = ng + 2
    /\ took.iters = FoundPeaks
    /\ \A i \in 0 .. ng - 1 :
         /\ g(i).kind = "GaussianHF"
         /\ i < FoundPeaks =>
              /\ g(i).active /\ g(i).fitted
              /\ g(i).bmin = PeakPosition(file, i + 1) - PeakWindow
              /\ g(i).bmax = PeakPosition(file, i + 1) + PeakWindow
              /\ g(i).centre >= g(i).bmin
              /\ g(i).centre <= g(i).bmax
         /\ i >= FoundPeaks => (~g(i).active /\ ~g(i).fitted)

C10_Witness ==
  /\ Done("GRENOBLE", 48)
  /\ FoundPeaks = 2
  /\ g(0).centre # PeakPosition(file, 1)
  /\ ~g(2).active

Has(s, c) == \E i \in 1 .. Len(s.proc) : s.proc[i] = c

\* C12: cl2a = cl2.deepcopy() is independent of cl2: the smoothing and the
\* permanent markers put on cl2 afterwards do not reach cl2a, and cl2_eV
\* and the model m are built from the non-smoothed copy.
C12_CopyIndependent ==
  /\ Done("ROUEN", 12) =>
       /\ ns["cl2a"] # ns["cl2"]
       /\ heap[ns["cl2"]].proc = Append(heap[ns["cl2a"]].proc, "smooth")
       /\ ~Has(heap[ns["cl2a"]], "smooth")
       /\ heap[ns["cl2a"]].markers = 0
       /\ heap[ns["cl2a"]].axis = "nm"
       /\ heap[ns["cl2a"]].sig = heap[ns["cl2"]].sig
  /\ Done("ROUEN", 19) => heap[ns["cl2"]].markers > 0
  /\ Done("ROUEN", 21) =>
       /\ heap[ns["cl2_eV"]].proc = Append(heap[ns["cl2a"]].proc, "jacobian")
       /\ heap[ns["cl2_eV"]].markers = 0
  /\ Done("ROUEN", 25) =>
       /\ model.sig = ns["cl2_eV"]
       /\ ~Has(heap[model.sig], "smooth")

C12_Witness ==
  /\ Done("ROUEN", 29)
  /\ Has(heap[ns["cl2"]], "smooth")
  /\ heap[ns["cl2"]].markers = 3
  /\ heap[ns["cl2a"]].markers = 0
  /\ ~Has(heap[model.sig], "smooth")
  /\ heap[model.sig].axis = "eV"

\* C13: the cell 'remove last pixels' takes the last three channels off
\* every spectrum: the N-channel signal loaded from the file becomes a
\* signal of N-3 channels that starts at the same first channel, with the
\* navigation dimensions unchanged.
C13_LastPixelsRemoved ==
  [][ (pc' = pc + 1 /\ Cells(nb)[pc] = "isig") =>
        LET a == Arg(nb, pc)
            old == heap[ns[a.x]]
            new == heap'[ns'[a.y]]
        IN /\ old.sig = <<file.n>>
           /\ new.sig = <<file.n - LastPixels>>
           /\ new.origin = old.origin
           /\ new.nav = old.nav
           /\ new.nav = load(nb, a.x, file).nav
    ]_vars

C13_Witness ==
  /\ Done("GATAN", 12)
  /\ file.n = 8
  /\ heap[ns["cl_linescan"]].sig = <<5>>
  /\ heap[ns["cl_linescan"]].origin = <<0>>
  /\ heap[ns["cl_linescan"]].nav = <<file.w>>

\* the sample intervals of the model signal s
Windows == 0 .. AxisSize - 2

JacobianPreserves ==
  /\ Has(heap[ns["s2"]], "jacobian")
  /\ ~Has(heap[ns["s"]], "jacobian")
  /\ \A i \in Windows :
       LET e == EnergyIntegral(heap[ns["s2"]], i)
           w == WavelengthIntegral(heap[ns["s"]], i)
           \* (e - w) / w as a ratio
           excess == Ratio(e.num * w.den - w.num * e.den, w.num * e.den)
       IN /\ excess.num > 0
          /\ excess.num * 10000 < excess.den

Corrections == <<"bkg", "shift", "crop", "spikes">>
IsPrefix(s, t) == Len(s) <= Len(t) /\ \A i \in 1 .. Len(s) : s[i] = t[i]
\* signal s went through the first k corrections, in order
Carries(s, k) == IsPrefix(SubSeq(Corrections, 1, k), s.proc)

\* C15: in both AttoLight notebooks the corrections are applied in the
\* order background, grating shift, crop, spikes, each on the result of
\* the previous one, and the signal that is plotted carries all four.
C15_CorrectionOrder ==
  /\ \A x \in {"cl_sem", "cl_sem_bkg", "cl_sem_bkg_spikes", "cl"} :
       (nb \in {"HYP", "SUR"} /\ ns[x] # 0) => IsPrefix(heap[ns[x]].proc, Corrections)
  /\ Done("HYP", 5) => Carries(heap[ns["cl_sem_bkg"]], 1)
  /\ Done("HYP", 6) => Carries(heap[ns["cl_sem_bkg"]], 2)
  /\ Done("HYP", 7) => Carries(heap[ns["cl_sem_bkg"]], 3)
  /\ Done("HYP", 9) =>
       /\ Len(PlotsOf(9)) = 1
       /\ heap[PlotsOf(9)[1].signal].proc = Corrections
  /\ Done("SUR", 7) => Carries(heap[ns["cl"]], 1)
  /\ Done("SUR", 9) => Carries(heap[ns["cl"]], 2)
  /\ Done("SUR", 10) => Carries(heap[ns["cl"]], 3)
  /\ Done("SUR", 12) =>
       /\ Len(PlotsOf(12)) = 1
       /\ heap[PlotsOf(12)[1].signal].proc = Corrections

C15_Witness ==
  /\ Done("SUR", 12)
  /\ figs # <<>>
  /\ heap[figs[1].signal].proc = Corrections
  /\ heap[figs[1].signal].nav = <<file.w - 2 * CropPx, file.h - 2 * CropPx>>

\* the number of times the cell 'x = x.isig[:-3]' has worked on signal s
Sliced(s) == Len(SelectSeq(s.proc, LAMBDA c : c = "isig"))

\* the signals rebound by a 'remove last pixels' cell
SlicedNames == {"cl2", "cl_linescan"}

\* k executions of x = x.isig[:-3] leave N - 3k of the N channels loaded
ChannelsLeft ==
  \A x \in SlicedNames :
    (ns[x] # 0 /\ ~Has(heap[ns[x]], "rebin")) =>
      LET k == Sliced(heap[ns[x]]) IN
        LastPixels * k < file.n =>
          heap[ns[x]].sig = <<file.n - LastPixels * k>>

\* the number of times the advanced fitting cell has worked on model m
Extended == model.fits - 1

\* k executions of the advanced fitting cell leave 2 + 10 k components
ComponentsLeft ==
  Done("GRENOBLE", 46) => Len(model.comps) = 2 + ng * Extended

\* one more execution of either cell works on what the last one left
ExecutedAgain ==
  /\ (execCount' = execCount + 1 /\ Cells(nb)[pc] = "isig") =>
       LET a == Arg(nb, pc)
           old == heap[ns[a.x]]
           new == heap'[ns'[a.y]]
       IN /\ Sliced(new) = Sliced(old) + 1
          /\ old.sig[1] >= LastPixels => new.sig = <<old.sig[1] - LastPixels>>
          /\ new.origin = old.origin
  /\ (execCount' = execCount + 1 /\ Cells(nb)[pc] = "gre_advanced") =>
       /\ Len(model'.comps) = Len(model.comps) + ng
       /\ \A j \in 3 .. Len(model.comps) :
            /\ j <= Len(model'.comps)
            /\ model'.comps[j].kind = model.comps[j].kind
            /\ model'.comps[j].active = model.comps[j].active
            /\ model'.comps[j].bmin = model.comps[j].bmin
            /\ model'.comps[j].bmax = model.comps[j].bmax
       /\ \A j \in Len(model.comps) + 1 .. Len(model'.comps) :
            model'.comps[j].active <=> j - Len(model.comps) <= FoundPeaks

\* C16: executing a cell that rebinds a name to a function of itself once
\* more is not idempotent: k executions of x = x.isig[:-3] on an N-channel
\* signal leave N - 3k channels (3k < N), and k executions of the advanced
\* fitting cell on the same model m leave 2 + 10k components, of which the
\* Gaussians of earlier executions keep their active state.
C16_NotIdempotent ==
  /\ [](ChannelsLeft /\ ComponentsLeft)
  /\ [][ExecutedAgain]_vars

C16_Witness ==
  /\ Done("GRENOBLE", 48)
  /\ Sliced(heap[ns["cl2"]]) = 2
  /\ Extended = 2
  /\ Len(model.comps) = 2 + 2 * ng
  /\ file.npeaks = 1
  /\ model.comps[3].active /\ ~model.comps[4].active
  /\ model.comps[3 + ng].active /\ ~model.comps[4 + ng].active

====
